---- MODULE Spec2Model ----
(***************************************************************************)
(* Artemis-v2 maintenance scripts: the Nexus spawn import                  *)
(* (scripts/import-nexus-spawns.py), the HP match analysis                 *)
(* (scripts/analyze-hp-matches.py) and the session report                  *)
(* (scripts/read-session.py), each as a sequential program over a SQLite   *)
(* database.                                                               *)
(***************************************************************************)
EXTENDS Integers, Sequences, FiniteSets, TLC

(***************************************************************************)
(* Bounds of the model.                                                    *)
(***************************************************************************)
\* longest feed document (number of array elements)
MaxFeed == 2
\* number of times the import script is run
MaxRuns == 2
\* last value of the wall clock (seconds)
MaxClock == 1

(***************************************************************************)
(* JSON values as json.loads returns them.  Every value is a record with   *)
(* a tag t: null (None), num, str, bool, obj (dict).                       *)
(***************************************************************************)
Null == [t |-> "null"]
Num(n) == [t |-> "num", n |-> n]
Str(s) == [t |-> "str", s |-> s]
Bool(b) == [t |-> "bool", b |-> b]
Obj(f) == [t |-> "obj", o |-> f]
EmptyObj == [t |-> "obj", o |-> <<>>]

IsDict(x) == x.t = "obj"

\* dict.get(key, default): the default only when the key is absent; a key
\* present with value null yields None.
Get(d, key, default) == IF key \in DOMAIN d.o THEN d.o[key] ELSE default

\* Python truthiness, as used by "1 if props.get('IsShared') else 0".
Truthy(x) ==
  CASE x.t = "null" -> FALSE
    [] x.t = "bool" -> x.b
    [] x.t = "num" -> x.n # 0
    [] x.t = "str" -> x.s # ""
    [] x.t = "obj" -> DOMAIN x.o # {}

\* json.dumps(spawn): the text of the element, kept apart from the value.
Dumps(x) == [t |-> "text", json |-> x]

(***************************************************************************)
(* The feed elements the model draws from.                                 *)
(***************************************************************************)
Props(lon, lat) ==
  Obj([Type |-> Str("MobArea"),
       Coordinates |-> Obj([Longitude |-> Num(lon), Latitude |-> Num(lat)]),
       Density |-> Null,
       IsShared |-> Bool(TRUE)])

PlanetObj(p) == Obj([Name |-> Str(p)])

Spawn(id, name, planet, lon, lat) ==
  Obj([Id |-> id, Name |-> name, Planet |-> PlanetObj(planet),
       Properties |-> Props(lon, lat)])

\* id 1, 2.236 units from the hunting area
RecFoul == Spawn(Num(1), Str("Foul Young"), "Calypso", 79087, 67538)
\* id 2, 2 units from the hunting area
RecAtrox == Spawn(Num(2), Str("Atrox"), "Calypso", 79085, 67539)
\* no Id key, no Name key, no Planet key
RecNoId == Obj([Properties |-> Props(79088, 67537)])
\* Id: null, and no Coordinates
RecNullId ==
  Obj([Id |-> Null, Name |-> Str("Foul Mature"), Planet |-> PlanetObj("Calypso"),
       Properties |-> Obj([Notes |-> Str("cave")])])
\* Name: null
RecNullName == Spawn(Num(3), Null, "Calypso", 79085, 67537)
\* Properties: null
RecNullProps ==
  Obj([Id |-> Num(3), Name |-> Str("Atrox"), Planet |-> PlanetObj("Calypso"),
       Properties |-> Null])
\* Planet: null
RecNullPlanet ==
  Obj([Id |-> Num(3), Name |-> Str("Atrox"), Planet |-> Null,
       Properties |-> Props(79085, 67537)])
\* an element that is not an object
RecJunk == Str("junk")

RecordPool ==
  {RecFoul, RecAtrox, RecNoId, RecNullId, RecNullName, RecNullProps,
   RecNullPlanet, RecJunk}

Feeds == UNION {[1..n -> RecordPool] : n \in 0..MaxFeed}

(***************************************************************************)
(* State.                                                                  *)
(***************************************************************************)
VARIABLES
  feed,           \* the document the remote API serves
  now,            \* wall clock, seconds
  store,          \* committed rows of nexus_spawns, by id
  table_exists,   \* nexus_spawns exists in the database file
  pc,             \* import script: position
  runs,           \* import script: number of runs started
  spawns,         \* import script: decoded feed
  conn,           \* import script: "none", "open", "closed"
  work,           \* import script: rows as the connection sees them
  in_tx,          \* import script: the connection has an open transaction
  idx,            \* import script: loop position in spawns
  inserted,       \* import script: counter
  skipped,        \* import script: counter
  foul_spawns,    \* import script: result of the Foul query
  nearby_spawns,  \* import script: result of the nearby query
  fetch_failed,   \* history: the fetch of the current run failed
  pre,            \* history: the database when the current run started
  prev            \* history: outcome of the previous run

importVars ==
  <<feed, now, store, table_exists, pc, runs, spawns, conn, work, in_tx, idx,
    inserted, skipped, foul_spawns, nearby_spawns, fetch_failed, pre, prev>>

VARIABLES
  mobs,           \* the mobs table, by rowid
  hp_pc,          \* HP analysis: position
  hp_conn,        \* HP analysis: "none", "open", "closed"
  hp_idx,         \* HP analysis: loop position in the sorted HP values
  matches,        \* HP analysis: rows of the last query
  match_ids       \* history: the rowids behind matches

hpVars == <<mobs, hp_pc, hp_conn, hp_idx, matches, match_ids>>

VARIABLES
  sessions,       \* the sessions table, by rowid
  events,         \* the events table, by rowid
  s_pc,           \* session report: position
  s_conn,         \* session report: "none", "open", "closed"
  session,        \* session report: the rows fetchone returned (none or one)
  stats,          \* session report: the printed stats (none or one)
  breakdown,      \* session report: the (type, count) rows printed
  total_events,   \* session report: counter
  gps_count,      \* session report: counter
  gps_samples,    \* session report: the GPS samples printed
  ops             \* history: the calls made on the connection and its cursor

sessVars ==
  <<sessions, events, s_pc, s_conn, session, stats, breakdown, total_events,
    gps_count, gps_samples, ops>>

vars == <<importVars, hpVars, sessVars>>

(***************************************************************************)
(* import-nexus-spawns.py: the try block of the import loop.               *)
(***************************************************************************)
Raise == [ok |-> FALSE]

\* Lines 60-83: the parameters bound to the INSERT, or an AttributeError
\* when .get is called on something that is not a dict.
Params(spawn) ==
  IF ~IsDict(spawn) THEN Raise
  ELSE
    LET props == Get(spawn, "Properties", EmptyObj)
        planet_data == Get(spawn, "Planet", EmptyObj)
    IN
    IF ~IsDict(planet_data) THEN Raise
    ELSE IF ~IsDict(props) THEN Raise
    ELSE
      LET coords == Get(props, "Coordinates", EmptyObj) IN
      IF ~IsDict(coords) THEN Raise
      ELSE
        [ok |-> TRUE,
         id |-> Get(spawn, "Id", Null),
         name |-> Get(spawn, "Name", Str("Unknown Spawn")),
         planet |-> Get(planet_data, "Name", Str("Unknown")),
         type |-> Get(props, "Type", Null),
         shape |-> Get(props, "Shape", Null),
         center_lon |-> Get(coords, "Longitude", Null),
         center_lat |-> Get(coords, "Latitude", Null),
         density |-> Get(props, "Density", Null),
         is_shared |-> IF Truthy(Get(props, "IsShared", Null)) THEN 1 ELSE 0,
         is_event |-> IF Truthy(Get(props, "IsEvent", Null)) THEN 1 ELSE 0,
         notes |-> Get(props, "Notes", Null),
         data_json |-> Dumps(spawn)]

MaxOf(S) == CHOOSE m \in S : \A x \in S : x <= m

\* id INTEGER PRIMARY KEY: a NULL id takes the next rowid.
NextRowid(table) == IF DOMAIN table = {} THEN 1 ELSE MaxOf(DOMAIN table) + 1

\* The rowid the INSERT writes, for an id SQLite accepts.
Rowid(table, id) == IF id.t = "null" THEN NextRowid(table) ELSE id.n

\* An upsert that keeps the created_at of the row it replaces.
CreatedAtKept(table, rid, clock) ==
  IF rid \in DOMAIN table THEN table[rid].created_at ELSE clock

\* created_at INTEGER DEFAULT (strftime('%s', 'now')): the column is not in
\* the INSERT's column list, so every row the statement writes takes the
\* default, a replacing row included (REPLACE deletes the old row first).
CreatedAt(table, rid, clock) == clock

\* The statement fails (sqlite3.IntegrityError / ProgrammingError) on a NULL
\* name or planet, on an id that is neither NULL nor an integer, and on a
\* value sqlite3 cannot bind; a failed statement changes no row.
Accepts(p) ==
  /\ p.id.t \in {"null", "num"}
  /\ p.name.t # "null"
  /\ p.planet.t # "null"
  /\ \A c \in {"name", "planet", "type", "shape", "center_lon", "center_lat",
               "density", "notes"} : p[c].t # "obj"

RowOf(p, rid, created) ==
  [id |-> rid, name |-> p.name, planet |-> p.planet, type |-> p.type,
   shape |-> p.shape, center_lon |-> p.center_lon, center_lat |-> p.center_lat,
   density |-> p.density, is_shared |-> p.is_shared, is_event |-> p.is_event,
   notes |-> p.notes, data_json |-> p.data_json, created_at |-> created]

\* INSERT OR REPLACE INTO nexus_spawns (...) VALUES (...)
InsertOrReplace(table, p, clock) ==
  LET rid == Rowid(table, p.id) IN
  [i \in DOMAIN table \cup {rid} |->
     IF i = rid THEN RowOf(p, rid, CreatedAt(table, rid, clock)) ELSE table[i]]

(***************************************************************************)
(* The queries of import-nexus-spawns.py.                                  *)
(***************************************************************************)
HuntLon == 79085
HuntLat == 67537
NearbyLimit == 10

\* name LIKE '%Foul%', over the names of the record pool
LikeFoul(name) == name.t = "str" /\ name.s \in {"Foul Young", "Foul Mature"}

\* ORDER BY name (BINARY collation), over the names of the record pool
NameRank(name) ==
  CASE name.s = "Atrox" -> 1
    [] name.s = "Foul Mature" -> 2
    [] name.s = "Foul Young" -> 3
    [] OTHER -> 4

\* (center_lon - 79085)^2 + (center_lat - 67537)^2
DistSq(row) ==
  (row.center_lon.n - HuntLon) * (row.center_lon.n - HuntLon)
  + (row.center_lat.n - HuntLat) * (row.center_lat.n - HuntLat)

\* ROUND(SQRT(n)) for an integer n >= 0: the r with r - 1/2 <= sqrt(n) < r + 1/2
RoundSqrt(n) ==
  CHOOSE r \in 0..n :
    /\ (r = 0 \/ (2 * r - 1) * (2 * r - 1) <= 4 * n)
    /\ 4 * n < (2 * r + 1) * (2 * r + 1)

HasCoords(row) == row.center_lon.t # "null" /\ row.center_lat.t # "null"

\* The result column "distance": NULL (-1 here, NULL sorts first) when a
\* coordinate is NULL.
Distance(row) == IF HasCoords(row) THEN RoundSqrt(DistSq(row)) ELSE -1

\* The key of "ORDER BY distance": the result column of that name.
NearbyKey(row) == Distance(row)

\* ORDER BY over the rowids S, cut after n rows: the next row is the one of
\* least key among those left and, among equal keys, of least rowid (the
\* table is scanned in rowid order and SQLite's sorter keeps that order).
RECURSIVE Sorted(_, _, _)
Sorted(key, S, n) ==
  IF n = 0 \/ S = {} THEN <<>>
  ELSE LET x == CHOOSE y \in S :
                  \A z \in S : key[y] < key[z] \/ (key[y] = key[z] /\ y <= z)
       IN <<x>> \o Sorted(key, S \ {x}, n - 1)

FoulRows(table) ==
  {i \in DOMAIN table : table[i].planet = Str("Calypso") /\ LikeFoul(table[i].name)}

NearbyRows(table) ==
  {i \in DOMAIN table : table[i].planet = Str("Calypso") /\ HasCoords(table[i])}

FoulTuple(row) ==
  [id |-> row.id, name |-> row.name, planet |-> row.planet,
   center_lon |-> row.center_lon, center_lat |-> row.center_lat,
   density |-> row.density, notes |-> row.notes]

NearbyTuple(row) ==
  [id |-> row.id, name |-> row.name, planet |-> row.planet,
   center_lon |-> row.center_lon, center_lat |-> row.center_lat,
   distance |-> Distance(row)]

FoulRank(row) == NameRank(row.name)

(***************************************************************************)
(* Initial state: the database before the first run.                       *)
(***************************************************************************)
NoRows == <<>>

\* a row an earlier import wrote at time 0
OldRow == RowOf(Params(RecFoul), 1, 0)

InitialStores ==
  {[exists |-> FALSE, rows |-> NoRows], [exists |-> TRUE, rows |-> (1 :> OldRow)]}

NoPrev == [done |-> FALSE, store |-> NoRows, inserted |-> 0]

\* The HP analysis is not running.
HpIdle ==
  /\ mobs = <<>>
  /\ hp_pc = "idle"
  /\ hp_conn = "none"
  /\ hp_idx = 0
  /\ matches = <<>>
  /\ match_ids = <<>>

\* The hunting-session report is not running.
SessIdle ==
  /\ sessions = <<>>
  /\ events = <<>>
  /\ s_pc = "idle"
  /\ s_conn = "none"
  /\ session = <<>>
  /\ stats = <<>>
  /\ breakdown = <<>>
  /\ total_events = 0
  /\ gps_count = 0
  /\ gps_samples = <<>>
  /\ ops = <<>>

ImportInit ==
  /\ feed \in Feeds
  /\ now = 0
  /\ \E s \in InitialStores : store = s.rows /\ table_exists = s.exists
  /\ pc = "fetch"
  /\ runs = 1
  /\ spawns = <<>>
  /\ conn = "none"
  /\ work = NoRows
  /\ in_tx = FALSE
  /\ idx = 0
  /\ inserted = 0
  /\ skipped = 0
  /\ foul_spawns = <<>>
  /\ nearby_spawns = <<>>
  /\ fetch_failed = FALSE
  /\ pre = [rows |-> store, exists |-> table_exists]
  /\ prev = NoPrev

(***************************************************************************)
(* import-nexus-spawns.py, statement by statement.                         *)
(***************************************************************************)
\* Lines 20-24: the document is fetched and decoded.
FetchOk ==
  /\ pc = "fetch"
  /\ spawns' = feed
  /\ pc' = "connect"
  /\ UNCHANGED <<feed, now, store, table_exists, runs, conn, work, in_tx, idx,
                 inserted, skipped, foul_spawns, nearby_spawns,
                 fetch_failed, pre, prev>>
  /\ UNCHANGED <<hpVars, sessVars>>

\* The failure is reported and the script goes on to connect.
AfterFetchFailureFallsThrough == "connect"

\* Line 27: where the script is after exit(1).
AfterFetchFailure == "exit1"

\* Lines 25-27: urlopen, decode, json.loads or len raised; exit(1).
FetchFail ==
  /\ pc = "fetch"
  /\ fetch_failed' = TRUE
  /\ pc' = AfterFetchFailure
  /\ UNCHANGED <<feed, now, store, table_exists, runs, spawns, conn, work,
                 in_tx, idx, inserted, skipped, foul_spawns, nearby_spawns,
                 pre, prev>>
  /\ UNCHANGED <<hpVars, sessVars>>

\* Lines 30-31
Connect ==
  /\ pc = "connect"
  /\ conn' = "open"
  /\ work' = store
  /\ in_tx' = FALSE
  /\ pc' = "create"
  /\ UNCHANGED <<feed, now, store, table_exists, runs, spawns, idx, inserted,
                 skipped, foul_spawns, nearby_spawns, fetch_failed, pre, prev>>
  /\ UNCHANGED <<hpVars, sessVars>>

\* Lines 34-56: CREATE TABLE IF NOT EXISTS runs outside any transaction and
\* is durable at once; the counters start at 0.
CreateTable ==
  /\ pc = "create"
  /\ table_exists' = TRUE
  /\ inserted' = 0
  /\ skipped' = 0
  /\ idx' = 1
  /\ pc' = "loop"
  /\ UNCHANGED <<feed, now, store, runs, spawns, conn, work, in_tx,
                 foul_spawns, nearby_spawns, fetch_failed, pre, prev>>
  /\ UNCHANGED <<hpVars, sessVars>>

\* The rows the connection sees after the statement of lines 65-83.
Execute(table, p, clock) == InsertOrReplace(table, p, clock)

\* A connection in autocommit mode: every statement is durable at once.
AfterStatementAutocommit(file, view) == view

\* The committed rows after a statement that ran inside the connection's
\* open transaction (sqlite3.connect's default isolation level begins one
\* before the first INSERT): nothing reaches the file before the commit.
AfterStatement(file, view) == file

\* Lines 58-85: the element's INSERT succeeds.
LoopInsert ==
  /\ pc = "loop" /\ idx <= Len(spawns)
  /\ LET p == Params(spawns[idx]) IN
       /\ p.ok /\ Accepts(p)
       /\ work' = Execute(work, p, now)
  /\ store' = AfterStatement(store, work')
  /\ in_tx' = TRUE
  /\ inserted' = inserted + 1
  /\ idx' = idx + 1
  /\ UNCHANGED <<feed, now, table_exists, pc, runs, spawns, conn,
                 skipped, foul_spawns, nearby_spawns, fetch_failed, pre, prev>>
  /\ UNCHANGED <<hpVars, sessVars>>

\* The try block raises: .get on a non-dict, or the statement fails.
Raises(spawn) == LET p == Params(spawn) IN IF p.ok THEN ~Accepts(p) ELSE TRUE

\* Lines 89-91: the handler formats spawn.get("Id") and counts the element.
LoopSkip ==
  /\ pc = "loop" /\ idx <= Len(spawns)
  /\ Raises(spawns[idx])
  /\ IsDict(spawns[idx])
  /\ in_tx' = IF Params(spawns[idx]).ok THEN TRUE ELSE in_tx
  /\ skipped' = skipped + 1
  /\ idx' = idx + 1
  /\ UNCHANGED <<feed, now, store, table_exists, pc, runs, spawns, conn, work,
                 inserted, foul_spawns, nearby_spawns, fetch_failed, pre, prev>>
  /\ UNCHANGED <<hpVars, sessVars>>

\* Line 90 on an element without .get: the handler itself raises
\* AttributeError, nothing catches it, the interpreter exits and the
\* connection is dropped with its transaction uncommitted.
LoopAbort ==
  /\ pc = "loop" /\ idx <= Len(spawns)
  /\ Raises(spawns[idx])
  /\ ~IsDict(spawns[idx])
  /\ pc' = "aborted"
  /\ conn' = "closed"
  /\ work' = store
  /\ in_tx' = FALSE
  /\ foul_spawns' = <<>>
  /\ nearby_spawns' = <<>>
  /\ UNCHANGED <<feed, now, store, table_exists, runs, spawns, idx, inserted,
                 skipped, fetch_failed, pre, prev>>
  /\ UNCHANGED <<hpVars, sessVars>>

\* What conn.commit() leaves in the database file.
Committed(file, view) == view

\* Line 93
Commit ==
  /\ pc = "loop" /\ idx > Len(spawns)
  /\ store' = Committed(store, work)
  /\ in_tx' = FALSE
  /\ pc' = "foul"
  /\ UNCHANGED <<feed, now, table_exists, runs, spawns, conn, work, idx,
                 inserted, skipped, foul_spawns, nearby_spawns,
                 fetch_failed, pre, prev>>
  /\ UNCHANGED <<hpVars, sessVars>>

\* The rows the Foul query returns: ORDER BY name, no LIMIT.
FoulResult(table) ==
  LET S == FoulRows(table)
      q == Sorted([i \in S |-> FoulRank(table[i])], S, Cardinality(S))
  IN [i \in DOMAIN q |-> FoulTuple(table[q[i]])]

\* Lines 101-109
FoulQuery ==
  /\ pc = "foul"
  /\ foul_spawns' = FoulResult(work)
  /\ pc' = "nearby"
  /\ UNCHANGED <<feed, now, store, table_exists, runs, spawns, conn, work,
                 in_tx, idx, inserted, skipped, nearby_spawns,
                 fetch_failed, pre, prev>>
  /\ UNCHANGED <<hpVars, sessVars>>

\* The rows the nearby query returns: ORDER BY distance LIMIT 10.
NearbyResult(table) ==
  LET S == NearbyRows(table)
      q == Sorted([i \in S |-> NearbyKey(table[i])], S, NearbyLimit)
  IN [i \in DOMAIN q |-> NearbyTuple(table[q[i]])]

\* Lines 120-135
NearbyQuery ==
  /\ pc = "nearby"
  /\ nearby_spawns' = NearbyResult(work)
  /\ pc' = "close"
  /\ UNCHANGED <<feed, now, store, table_exists, runs, spawns, conn, work,
                 in_tx, idx, inserted, skipped, foul_spawns,
                 fetch_failed, pre, prev>>
  /\ UNCHANGED <<hpVars, sessVars>>

\* Line 141
Close ==
  /\ pc = "close"
  /\ conn' = "closed"
  /\ pc' = "done"
  /\ UNCHANGED <<feed, now, store, table_exists, runs, spawns, work, in_tx,
                 idx, inserted, skipped, foul_spawns, nearby_spawns,
                 fetch_failed, pre, prev>>
  /\ UNCHANGED <<hpVars, sessVars>>

\* The process is killed before it reaches the commit: SQLite rolls the
\* uncommitted transaction back, the file keeps its committed rows.
Crash ==
  /\ conn = "open"
  /\ pc \in {"create", "loop"}
  /\ pc' = "crashed"
  /\ conn' = "closed"
  /\ work' = store
  /\ in_tx' = FALSE
  /\ foul_spawns' = <<>>
  /\ nearby_spawns' = <<>>
  /\ UNCHANGED <<feed, now, store, table_exists, runs, spawns, idx, inserted,
                 skipped, fetch_failed, pre, prev>>
  /\ UNCHANGED <<hpVars, sessVars>>

Stopped == pc \in {"done", "exit1", "aborted", "crashed"}

\* The script is started again on the same feed.
Rerun ==
  /\ Stopped
  /\ runs < MaxRuns
  /\ runs' = runs + 1
  /\ prev' = [done |-> pc = "done", store |-> store, inserted |-> inserted]
  /\ pre' = [rows |-> store, exists |-> table_exists]
  /\ fetch_failed' = FALSE
  /\ pc' = "fetch"
  /\ spawns' = <<>>
  /\ conn' = "none"
  /\ work' = NoRows
  /\ in_tx' = FALSE
  /\ idx' = 0
  /\ inserted' = 0
  /\ skipped' = 0
  /\ foul_spawns' = <<>>
  /\ nearby_spawns' = <<>>
  /\ UNCHANGED <<feed, now, store, table_exists>>
  /\ UNCHANGED <<hpVars, sessVars>>

\* A second of wall-clock time passes.  Only the INSERT of the loop reads the
\* clock (the created_at default), so time that passes elsewhere is time
\* that has passed when the next INSERT is reached.
Tick ==
  /\ pc = "loop" /\ idx <= Len(spawns)
  /\ now < MaxClock
  /\ now' = now + 1
  /\ UNCHANGED <<feed, store, table_exists, pc, runs, spawns, conn, work,
                 in_tx, idx, inserted, skipped, foul_spawns, nearby_spawns,
                 fetch_failed, pre, prev>>
  /\ UNCHANGED <<hpVars, sessVars>>

(***************************************************************************)
(* analyze-hp-matches.py                                                   *)
(***************************************************************************)
\* most rows of the mobs table
MaxMobs == 6

HpLimit == 5

\* line 12
test_hp_values ==
  <<58, 228, 135, 75, 161, 162, 200, 107, 155, 137, 453, 46, 121, 198, 56, 129,
    122, 142>>

MinOf(S) == CHOOSE m \in S : \A x \in S : m <= x

RECURSIVE Ascending(_)
Ascending(S) == IF S = {} THEN <<>> ELSE <<MinOf(S)>> \o Ascending(S \ {MinOf(S)})

\* sorted(set(test_hp_values))
SortedHpValues == Ascending({test_hp_values[i] : i \in DOMAIN test_hp_values})

Mob(name, hp, maturity, planet) ==
  [name |-> name, hp |-> hp, maturity |-> maturity, planet |-> planet]

\* The rows the model fills the mobs table from.
MobPool ==
  <<Mob("Snablesnot", 59, "Young", "Calypso"),
    Mob("Foul", 60, "Young", "Calypso"),
    Mob("Foul", 70, "Mature", "Calypso"),
    Mob("Foul", 75, "Old", "Calypso"),
    Mob("Foul", 75, "Old", "Arkadia"),
    Mob("Foul", 80, "Provider", "Calypso"),
    Mob("Foul", 90, "Guardian", "Calypso"),
    Mob("Atrox", 91, "Young", "Calypso")>>

\* The sequences of n indices into MobPool, each at least lo, in
\* non-decreasing order.
RECURSIVE Ordered(_, _)
Ordered(n, lo) ==
  IF n = 0 THEN {<<>>}
  ELSE UNION {{<<k>> \o q : q \in Ordered(n - 1, k)} : k \in lo..Len(MobPool)}

Catalogs ==
  UNION {{[i \in DOMAIN q |-> MobPool[q[i]]] : q \in Ordered(n, 1)} : n \in 0..MaxMobs}

\* lines 20-21, in tenths: min_hp = hp * 0.8, max_hp = hp * 1.2.  For the
\* values of test_hp_values the two doubles compare with every integer hp
\* of the table as the exact products do.
MinHp10(hp) == hp * 8
MaxHp10(hp) == hp * 12

\* A band without its edges.
BetweenExclusive(mobhp, hp) == MinHp10(hp) < mobhp * 10 /\ mobhp * 10 < MaxHp10(hp)

\* hp BETWEEN ? AND ?
Between(mobhp, hp) == MinHp10(hp) <= mobhp * 10 /\ mobhp * 10 <= MaxHp10(hp)

Abs(x) == IF x < 0 THEN -x ELSE x

\* WHERE hp BETWEEN ? AND ? AND planet = 'Calypso'
HpRows(table, hp) ==
  {i \in DOMAIN table : Between(table[i].hp, hp) /\ table[i].planet = "Calypso"}

\* ORDER BY ABS(hp - ?) ASC LIMIT 5: the rowids in the order returned
HpMatch(table, hp) ==
  Sorted([i \in HpRows(table, hp) |-> Abs(table[i].hp - hp)], HpRows(table, hp), HpLimit)

\* The import script is not running.
ImportIdle ==
  /\ feed = <<>>
  /\ now = 0
  /\ store = NoRows
  /\ table_exists = FALSE
  /\ pc = "idle"
  /\ runs = 0
  /\ spawns = <<>>
  /\ conn = "none"
  /\ work = NoRows
  /\ in_tx = FALSE
  /\ idx = 0
  /\ inserted = 0
  /\ skipped = 0
  /\ foul_spawns = <<>>
  /\ nearby_spawns = <<>>
  /\ fetch_failed = FALSE
  /\ pre = [rows |-> NoRows, exists |-> FALSE]
  /\ prev = NoPrev

HpStart ==
  /\ mobs \in Catalogs
  /\ hp_pc = "connect"
  /\ hp_conn = "none"
  /\ hp_idx = 0
  /\ matches = <<>>
  /\ match_ids = <<>>

\* lines 8-9
HpConnect ==
  /\ hp_pc = "connect"
  /\ hp_conn' = "open"
  /\ hp_idx' = 1
  /\ hp_pc' = "loop"
  /\ UNCHANGED <<mobs, matches, match_ids>>
  /\ UNCHANGED <<importVars, sessVars>>

\* lines 16-39: one HP value
HpQuery ==
  /\ hp_pc = "loop" /\ hp_idx <= Len(SortedHpValues)
  /\ LET q == HpMatch(mobs, SortedHpValues[hp_idx]) IN
       /\ match_ids' = q
       /\ matches' = [i \in DOMAIN q |-> mobs[q[i]]]
  /\ hp_idx' = hp_idx + 1
  /\ UNCHANGED <<mobs, hp_pc, hp_conn>>
  /\ UNCHANGED <<importVars, sessVars>>

\* line 41
HpClose ==
  /\ hp_pc = "loop" /\ hp_idx > Len(SortedHpValues)
  /\ hp_conn' = "closed"
  /\ hp_pc' = "done"
  /\ UNCHANGED <<mobs, hp_idx, matches, match_ids>>
  /\ UNCHANGED <<importVars, sessVars>>

HpInit == ImportIdle /\ HpStart /\ SessIdle

HpNext == HpConnect \/ HpQuery \/ HpClose

SpecHp == HpInit /\ [][HpNext]_vars

(***************************************************************************)
(* read-session.py                                                         *)
(***************************************************************************)
\* most rows of the events table
MaxEvents == 3

\* json.loads of a text json.dumps wrote
Loads(text) == text.json

SessionRow(id, start, st) ==
  [id |-> id, name |-> "Hunt " \o id, loadout_id |-> Null, duration |-> 60,
   stats |-> st, start_time |-> start]

RecordedStats ==
  Dumps(Obj([totalKills |-> Num(3), totalLootTTValue |-> Num(12),
             totalAmmoCost |-> Num(10), profit |-> Num(2)]))

\* a session without stats, and a later one with stats
SessionA == SessionRow("a", 1, Null)
SessionB == SessionRow("b", 2, RecordedStats)

SessionTables ==
  {<<>>, <<SessionA>>, <<SessionB>>, <<SessionA, SessionB>>, <<SessionB, SessionA>>}

Event(sid, type, payload) == [session_id |-> sid, type |-> type, payload |-> payload]

GpsPayload == Dumps(Obj([location |-> Obj([lon |-> Num(79085), lat |-> Num(67537)])]))

EventPool ==
  {Event("a", "GPS_UPDATE", GpsPayload),
   Event("a", "LOOT_RECEIVED", Dumps(Obj([totalTTValue |-> Num(4)]))),
   Event("b", "GPS_UPDATE", Dumps(EmptyObj)),
   Event("b", "MOB_KILLED", Dumps(EmptyObj))}

EventTables == UNION {[1..n -> EventPool] : n \in 0..MaxEvents}

SessStart ==
  /\ sessions \in SessionTables
  /\ events \in EventTables
  /\ s_pc = "connect"
  /\ s_conn = "none"
  /\ session = <<>>
  /\ stats = <<>>
  /\ breakdown = <<>>
  /\ total_events = 0
  /\ gps_count = 0
  /\ gps_samples = <<>>
  /\ ops = <<>>

\* lines 10-11
SConnect ==
  /\ s_pc = "connect"
  /\ s_conn' = "open"
  /\ ops' = Append(ops, "connect")
  /\ s_pc' = "recent"
  /\ UNCHANGED <<sessions, events, session, stats, breakdown, total_events,
                 gps_count, gps_samples>>
  /\ UNCHANGED <<importVars, hpVars>>

\* ORDER BY start_time DESC LIMIT n: rowids of the sessions table
RecentSessions(table, n) == Sorted([i \in DOMAIN table |-> -table[i].start_time], DOMAIN table, n)

\* lines 14-21
SRecent ==
  /\ s_pc = "recent"
  /\ ops' = Append(ops, "execute")
  /\ LET q == RecentSessions(sessions, 1) IN
       session' = [i \in DOMAIN q |-> sessions[q[i]]]
  /\ s_pc' = "check"
  /\ UNCHANGED <<sessions, events, s_conn, stats, breakdown, total_events,
                 gps_count, gps_samples>>
  /\ UNCHANGED <<importVars, hpVars>>

\* lines 22-25
SNoSession ==
  /\ s_pc = "check"
  /\ session = <<>>
  /\ s_conn' = "closed"
  /\ ops' = Append(ops, "close")
  /\ s_pc' = "exit"
  /\ UNCHANGED <<sessions, events, session, stats, breakdown, total_events,
                 gps_count, gps_samples>>
  /\ UNCHANGED <<importVars, hpVars>>

\* "if stats_json:" on a column value
HasStats(row) == row.stats.t # "null"

\* lines 35-40
PrintedStats(row) ==
  LET st == Loads(row.stats) IN
  [kills |-> Get(st, "totalKills", Num(0)),
   loot |-> Get(st, "totalLootTTValue", Num(0)),
   ammo |-> Get(st, "totalAmmoCost", Num(0)),
   profit |-> Get(st, "profit", Num(0))]

\* lines 27-42
SStats ==
  /\ s_pc = "check"
  /\ session # <<>>
  /\ stats' = IF HasStats(session[1]) THEN <<PrintedStats(session[1])>> ELSE <<>>
  /\ s_pc' = "count"
  /\ UNCHANGED <<sessions, events, s_conn, session, breakdown, total_events,
                 gps_count, gps_samples, ops>>
  /\ UNCHANGED <<importVars, hpVars>>

EventTypes == <<"GPS_UPDATE", "LOOT_RECEIVED", "MOB_KILLED">>

\* COUNT(*) of one type WHERE session_id = ?
CountOf(table, sid, k) ==
  Cardinality({i \in DOMAIN table : table[i].session_id = sid /\ table[i].type = EventTypes[k]})

\* GROUP BY type ORDER BY COUNT(*) DESC: the types that occur, by index
Groups(table, sid) ==
  LET occur == {k \in DOMAIN EventTypes : CountOf(table, sid, k) > 0} IN
  Sorted([k \in occur |-> -CountOf(table, sid, k)], occur, Len(EventTypes))

RECURSIVE SumCounts(_)
SumCounts(rows) ==
  IF rows = <<>> THEN 0 ELSE rows[1].count + SumCounts(Tail(rows))

\* lines 59-60: the count of the GPS_UPDATE row, 0 without one
GpsOf(rows) ==
  IF \E i \in DOMAIN rows : rows[i].type = "GPS_UPDATE"
  THEN rows[CHOOSE i \in DOMAIN rows : rows[i].type = "GPS_UPDATE"].count
  ELSE 0

\* lines 45-63
SCount ==
  /\ s_pc = "count"
  /\ ops' = Append(ops, "execute")
  /\ LET g == Groups(events, session[1].id)
         rows == [i \in DOMAIN g |->
                    [type |-> EventTypes[g[i]],
                     count |-> CountOf(events, session[1].id, g[i])]]
     IN /\ breakdown' = rows
        /\ total_events' = SumCounts(rows)
        /\ gps_count' = GpsOf(rows)
  /\ s_pc' = "gps"
  /\ UNCHANGED <<sessions, events, s_conn, session, stats, gps_samples>>
  /\ UNCHANGED <<importVars, hpVars>>

GpsRows(table, sid) ==
  {i \in DOMAIN table : table[i].session_id = sid /\ table[i].type = "GPS_UPDATE"}

\* lines 76-78
GpsLine(row) ==
  LET loc == Get(Loads(row.payload), "location", EmptyObj) IN
  [lon |-> Get(loc, "lon", Num(0)), lat |-> Get(loc, "lat", Num(0))]

\* lines 66-78
SGps ==
  /\ s_pc = "gps"
  /\ IF gps_count > 0
     THEN /\ ops' = Append(ops, "execute")
          /\ LET S == GpsRows(events, session[1].id)
                 q == Sorted([i \in S |-> 0], S, 3)
             IN gps_samples' = [i \in DOMAIN q |-> GpsLine(events[q[i]])]
     ELSE UNCHANGED <<ops, gps_samples>>
  /\ s_pc' = "close"
  /\ UNCHANGED <<sessions, events, s_conn, session, stats, breakdown,
                 total_events, gps_count>>
  /\ UNCHANGED <<importVars, hpVars>>

\* lines 80-81
SClose ==
  /\ s_pc = "close"
  /\ s_conn' = "closed"
  /\ ops' = Append(ops, "close")
  /\ s_pc' = "schema"
  /\ UNCHANGED <<sessions, events, session, stats, breakdown, total_events,
                 gps_count, gps_samples>>
  /\ UNCHANGED <<importVars, hpVars>>

\* line 84: cursor.execute("PRAGMA table_info(sessions)").  On a closed
\* connection sqlite3 raises ProgrammingError, nothing catches it and the
\* script ends there; lines 85-168 run only if the call returns.
SSchema ==
  /\ s_pc = "schema"
  /\ ops' = Append(ops, "execute")
  /\ s_pc' = IF s_conn = "open" THEN "events_schema" ELSE "raised"
  /\ UNCHANGED <<sessions, events, s_conn, session, stats, breakdown,
                 total_events, gps_count, gps_samples>>
  /\ UNCHANGED <<importVars, hpVars>>

SessInit == ImportIdle /\ HpIdle /\ SessStart

SessNext ==
  SConnect \/ SRecent \/ SNoSession \/ SStats \/ SCount \/ SGps \/ SClose \/ SSchema

SpecSession == SessInit /\ [][SessNext]_vars

Next ==
  \/ FetchOk \/ FetchFail \/ Connect \/ CreateTable
  \/ LoopInsert \/ LoopSkip \/ LoopAbort \/ Commit
  \/ FoulQuery \/ NearbyQuery \/ Close
  \/ Crash \/ Rerun \/ Tick

Init == ImportInit /\ HpIdle /\ SessIdle

Spec == Init /\ [][Next]_vars

(***************************************************************************)
(* Properties of the import.                                               *)
(***************************************************************************)
\* An element that is an object without an Id: the key is absent or null.
NoId(spawn) == IsDict(spawn) /\ Get(spawn, "Id", Null) = Null

\* The loop is at an element and the step is the loop's own (not the kill of
\* the process, not the clock).
AtElement == pc = "loop" /\ idx >= 1 /\ idx <= Len(spawns)
LoopStep == AtElement /\ pc' # "crashed" /\ now' = now /\ vars' # vars

\* C1: a feed record without an Id (missing key or null) is not written to
\* the store; it is counted as skipped (skipped + 1, inserted unchanged) and
\* the loop goes on to the next record.
C1_NoIdIsSkipped ==
  [][(LoopStep /\ NoId(spawns[idx]))
       => (skipped' = skipped + 1 /\ inserted' = inserted /\ work' = work
           /\ idx' = idx + 1 /\ pc' = "loop")]_vars

\* The columns the feed decides (all but created_at), as a set of rows.
Content(table) ==
  {[c \in DOMAIN table[i] \ {"created_at"} |-> table[i][c]] : i \in DOMAIN table}

\* C2: the sync is idempotent: when a run on the same feed completes after
\* a completed run, the store holds the same rows as after the first run and
\* the run reports the same inserted count.
C2_Idempotent ==
  (prev.done /\ pc = "done")
    => (Content(store) = Content(prev.store) /\ inserted = prev.inserted)

\* An element that deviates from the record shape.
Deviates(spawn) ==
  \/ ~IsDict(spawn)
  \/ /\ IsDict(spawn)
     /\ \/ Get(spawn, "Properties", EmptyObj) = Null
        \/ Get(spawn, "Planet", EmptyObj) = Null
        \/ Get(spawn, "Name", Str("Unknown Spawn")) = Null

\* C3: every element that deviates from the record shape (not an object, or
\* Properties, Planet or Name null) is counted as skipped and the loop
\* continues with the next element; no element aborts the batch.
C3_DeviationIsSkipped ==
  [][(LoopStep /\ Deviates(spawns[idx]))
       => (pc' = "loop" /\ idx' = idx + 1 /\ skipped' = skipped + 1
           /\ inserted' = inserted)]_vars

\* C4: when fetching or decoding the feed fails, no database operation
\* happens in that run: no connection is opened, the table is not created,
\* no row is written; the database is as it was before the run.
C4_FetchFailureTouchesNothing ==
  fetch_failed
    => (conn = "none" /\ store = pre.rows /\ table_exists = pre.exists)

\* a failed fetch on a database that has no nexus_spawns table
C4_Witness == fetch_failed /\ pc = "exit1" /\ ~table_exists /\ feed # <<>>

\* C5: all upserts of a run are in one transaction, committed after the last
\* record: while the loop runs, and when the run is interrupted before the
\* commit (kill or uncaught exception), the committed rows are exactly those
\* of before the run.
C5_InterruptedRunLeavesStore ==
  pc \in {"loop", "crashed", "aborted"} => store = pre.rows

\* the process was killed mid-batch, after the first upsert into an empty
\* table and before the last element
C5_Witness ==
  pc = "crashed" /\ inserted >= 1 /\ idx <= Len(spawns) /\ store = NoRows

\* Squared full-precision distance of a returned row.
ExactSq(t) ==
  (t.center_lon.n - HuntLon) * (t.center_lon.n - HuntLon)
  + (t.center_lat.n - HuntLat) * (t.center_lat.n - HuntLat)

\* C6: the nearby query returns the limit closest Calypso rows with
\* coordinates, in non-decreasing order of the full-precision distance;
\* rounding does not decide the order or the choice.
C6_OrderedByExactDistance ==
  pc \in {"close", "done"} =>
    /\ \A i, j \in DOMAIN nearby_spawns :
         i < j => ExactSq(nearby_spawns[i]) <= ExactSq(nearby_spawns[j])
    /\ \A r \in DOMAIN work :
         (work[r].planet = Str("Calypso") /\ HasCoords(work[r])
          /\ \A i \in DOMAIN nearby_spawns : nearby_spawns[i].id # r)
           => /\ Len(nearby_spawns) = NearbyLimit
              /\ \A i \in DOMAIN nearby_spawns :
                   ExactSq(nearby_spawns[i]) <= ExactSq(work[r])

\* C9 as stated: once a row exists, a later upsert of its id leaves its
\* created_at as the first insert set it.
C9_CreatedAtKept ==
  [][\A i \in DOMAIN store :
       i \in DOMAIN store' => store'[i].created_at = store[i].created_at]_vars

\* C9, amended: an upsert of an id that already exists replaces the whole
\* row, created_at included: the column takes its default again, the time of
\* the replacing INSERT.
C9_CreatedAtIsReplaceTime ==
  [][(LoopStep /\ IsDict(spawns[idx]) /\ inserted' = inserted + 1
      /\ Get(spawns[idx], "Id", Null).t = "num"
      /\ Get(spawns[idx], "Id", Null).n \in DOMAIN work)
       => work'[Get(spawns[idx], "Id", Null).n].created_at = now]_vars

\* a committed row whose created_at is later than that of the row it replaced
C9_Witness ==
  /\ pc = "done"
  /\ \E i \in DOMAIN store :
       i \in DOMAIN pre.rows /\ store[i].created_at > pre.rows[i].created_at

(***************************************************************************)
(* Properties of the HP analysis.                                          *)
(***************************************************************************)
\* the HP value of the last query
LastHp == SortedHpValues[hp_idx - 1]

\* hp * 0.8 <= m <= hp * 1.2, in exact arithmetic
InBand(m, hp) == 4 * hp <= 5 * m /\ 5 * m <= 6 * hp

\* C7: for an observed HP and the tolerance 0.2 the query returns at most
\* limit entries, each on Calypso with HP in the inclusive band
\* [hp * 0.8, hp * 1.2], in non-decreasing order of abs(HP - hp); an in-band
\* entry (one on a band edge included) is left out only when limit entries
\* at least as close are returned.
C7_HpCandidates ==
  hp_idx > 1 =>
    /\ Len(matches) <= HpLimit
    /\ \A i \in DOMAIN matches :
         matches[i].planet = "Calypso" /\ InBand(matches[i].hp, LastHp)
    /\ \A i, j \in DOMAIN matches :
         i < j => Abs(matches[i].hp - LastHp) <= Abs(matches[j].hp - LastHp)
    /\ \A r \in DOMAIN mobs :
         (mobs[r].planet = "Calypso" /\ InBand(mobs[r].hp, LastHp)
          /\ \A i \in DOMAIN match_ids : match_ids[i] # r)
           => /\ Len(matches) = HpLimit
              /\ \A i \in DOMAIN matches :
                   Abs(matches[i].hp - LastHp) <= Abs(mobs[r].hp - LastHp)

\* for HP 75 the limit cuts the result, and a row on each band edge (60, 90)
\* is among the rows returned
C7_Witness ==
  /\ hp_idx > 1 /\ LastHp = 75
  /\ Len(matches) = HpLimit
  /\ Cardinality({r \in DOMAIN mobs : mobs[r].planet = "Calypso" /\ InBand(mobs[r].hp, 75)}) > HpLimit
  /\ \E i, j \in DOMAIN matches : matches[i].hp = 60 /\ matches[j].hp = 90

(***************************************************************************)
(* Properties of the session report.                                       *)
(***************************************************************************)
EventsOf(sid) == {i \in DOMAIN events : events[i].session_id = sid}

\* C8: summarizing a session without stats and without events is no error:
\* the report runs to completion without raising, with an empty breakdown,
\* zero total events and zero GPS samples (no kills are reported).
C8_EmptySessionIsNoError ==
  (session # <<>> /\ ~HasStats(session[1]) /\ EventsOf(session[1].id) = {})
    => /\ s_pc # "raised"
       /\ stats = <<>>
       /\ s_pc \in {"gps", "close", "schema"}
            => (breakdown = <<>> /\ total_events = 0 /\ gps_count = 0
                /\ gps_samples = <<>>)

\* C10: the connection is used only while open: no query is executed on it
\* or its cursor after it was closed, and it is closed at most once.
C10_NoUseAfterClose ==
  \A i, j \in DOMAIN ops : (i < j /\ ops[i] = "close") => ops[j] \notin {"execute", "close"}

====
